---- MODULE Spec2Model ----
(***************************************************************************)
(* A model of sentinelhub/sentinelhub_batch.py: the SentinelHubBatch       *)
(* handle (lazy cached description, remote actions, tile endpoints), the   *)
(* payload helpers and collection operations, and monitor_batch_job.       *)
(*                                                                         *)
(* Python values are tagged records, so that None, 0, False, '' and {} are *)
(* distinct values with the truthiness Python gives them.  A URL is the    *)
(* sequence of its '/'-separated segments.                                 *)
(***************************************************************************)
EXTENDS Integers, Sequences, FiniteSets, TLC

VARIABLES
    constructed,      \* "none" until a handle exists, then "ok"
    request_id,       \* self.request_id
    request_info,     \* self._request_info (None or a dict)
    origin,           \* what the handle was constructed from: "id", "info" or "both"
    fetch_count,      \* GET requests issued for the job description
    accessed,         \* a description-dependent accessor has been called
    explicit,         \* update_info or update has been called explicitly
    srv_status,       \* the job's status on the service
    srv_description,  \* the job's 'description' field on the service
    tileCount,        \* the job's tileCount on the service
    srv_tiles,        \* the job's tiles on the service: tile id -> status
    call,             \* the last call made: op, args, outcome, value, and the
                      \* HTTP request it issued
    pc,               \* monitor_batch_job: position in the function
    status,           \* monitor_batch_job: local `status`
    finished_count,   \* monitor_batch_job: local
    success_count,    \* monitor_batch_job: local
    total_tile_count, \* monitor_batch_job: local
    tiles_per_status, \* monitor_batch_job: local (last tile sample)
    processed_tiles_num, \* monitor_batch_job: local
    failed_tiles_num, \* monitor_batch_job: local
    tile_requests,    \* monitor_batch_job: tile listings requested in this run
    sample_sleeps,    \* monitor_batch_job: time.sleep(sleep_time) calls in this run
    logged            \* monitor_batch_job: the 'failed for N tiles' report, if made

handle_vars  == <<constructed, request_id, request_info, origin, fetch_count,
                  accessed, explicit>>
server_vars  == <<srv_status, srv_description, tileCount, srv_tiles>>
monitor_vars == <<pc, status, finished_count, success_count, total_tile_count,
                  tiles_per_status, processed_tiles_num, failed_tiles_num,
                  tile_requests, sample_sleeps, logged>>
vars == <<handle_vars, server_vars, call, monitor_vars>>

----------------------------------------------------------------------------
\* Bounds of the model

\* the most tiles a job has
MaxTiles == 2
\* the most explicit update_info calls made on one handle
MaxFetches == 1
\* the most tile samples one monitor run takes before the model stops following it
MaxSamples == 3

----------------------------------------------------------------------------
\* Python values

None      == [t |-> "None"]
Unbound   == [t |-> "unbound"]
PyStr(s)  == [t |-> "str", v |-> s]
PyInt(n)  == [t |-> "int", v |-> n]
PyBool(b) == [t |-> "bool", v |-> b]
PyDict(f) == [t |-> "dict", v |-> f]
PyList(s) == [t |-> "list", v |-> s]
PyTuple(s) == [t |-> "tuple", v |-> s]
PyObj(cls, f) == [t |-> cls, v |-> f]
\* a string given by its '/'-separated segments
PyPath(segs) == [t |-> "path", v |-> segs]

EmptyMap  == [k \in {} |-> None]
EmptyDict == PyDict(EmptyMap)

\* bool(x)
Truthy(x) ==
    CASE x.t = "None"  -> FALSE
      [] x.t = "str"   -> x.v # ""
      [] x.t = "int"   -> x.v # 0
      [] x.t = "bool"  -> x.v
      [] x.t = "dict"  -> DOMAIN x.v # {}
      [] x.t = "list"  -> Len(x.v) > 0
      [] x.t = "tuple" -> Len(x.v) > 0
      [] OTHER         -> TRUE

\* f'{x}' for the values that are formatted into URLs
Format(x) ==
    CASE x.t = "None" -> "None"
      [] x.t = "str"  -> x.v
      [] x.t = "int"  -> ToString(x.v)
      [] OTHER        -> "object"

\* {**a, **b}
Merge(a, b) ==
    [k \in DOMAIN a \cup DOMAIN b |-> IF k \in DOMAIN b THEN b[k] ELSE a[k]]

\* d.get(k)
Get(d, k) == IF k \in DOMAIN d.v THEN d.v[k] ELSE None

\* sh_utils.remove_undefined: the mapping without the keys whose value is None
remove_undefined(payload) ==
    [k \in {n \in DOMAIN payload : payload[n] # None} |-> payload[k]]

\* the result of a call: a returned value or a raised exception
Ret(v)     == [outcome |-> "return", value |-> v]
Raise(exc) == [outcome |-> exc, value |-> None]

----------------------------------------------------------------------------
\* URLs

_get_batch_url == <<"sh_base_url", "api", "v1", "batch">>

_get_process_url(rid) ==
    LET url == Append(_get_batch_url, "process")
    IN  IF Truthy(rid) THEN Append(url, Format(rid)) ELSE url

_get_tiles_url(rid, tile_id) ==
    LET url == Append(_get_process_url(rid), "tiles")
    IN  IF Truthy(tile_id) THEN Append(url, Format(tile_id)) ELSE url

_get_tiling_grids_url == Append(_get_batch_url, "tilinggrids")

_get_collections_url == Append(_get_batch_url, "collections")

\* DownloadClient.get_json: the verb of a request
get_json_verb(post_values, request_type) ==
    IF request_type # None THEN request_type.v
    ELSE IF post_values = None THEN "GET" ELSE "POST"

NoRequest == [verb |-> "", url |-> <<>>, body |-> None, response |-> None]

Request(verb, url, body, response) ==
    [verb |-> verb, url |-> url, body |-> body, response |-> response]

----------------------------------------------------------------------------
\* The remote service, as the client observes it

JobIds == {"a", "b"}

JobStatus == {"CREATED", "ANALYSING", "ANALYSIS_DONE", "PROCESSING", "DONE",
              "FAILED", "CANCELED"}

TileStatus == {"PENDING", "PROCESSED", "FAILED"}

Descriptions == {PyStr("d1")}

CrsUrn == <<"http:", "", "www.opengis.net", "def", "crs", "EPSG", "0", "4326">>

\* job "a" is defined over a bounding box, job "b" over a geometry
Bounds(id) ==
    LET props == [k \in {"properties"} |-> PyDict([c \in {"crs"} |-> PyPath(CrsUrn)])]
        area  == IF id = "a"
                 THEN [k \in {"bbox"} |-> PyStr("10.0,45.0,10.1,45.1")]
                 ELSE [k \in {"geometry"} |-> PyStr("polygon")]
    IN  PyDict(Merge(props, area))

ProcessRequest(id) ==
    PyDict([k \in {"evalscript", "input"} |->
              IF k = "evalscript" THEN PyStr("//VERSION=3")
              ELSE PyDict([b \in {"bounds"} |-> Bounds(id)])])

\* the JSON description the service gives of a job
JobDescription(id, st, desc, tc) ==
    LET keys == {"id", "status", "tileCount", "processRequest"}
                \cup (IF desc # None THEN {"description"} ELSE {})
                \cup (IF st = "FAILED" THEN {"error"} ELSE {})
    IN  PyDict([k \in keys |->
                  CASE k = "id"             -> PyStr(id)
                    [] k = "status"         -> PyStr(st)
                    [] k = "tileCount"      -> PyInt(tc)
                    [] k = "processRequest" -> ProcessRequest(id)
                    [] k = "description"    -> desc
                    [] k = "error"          -> PyStr("boom")])

ServerDescription(rid) ==
    JobDescription(Format(rid), srv_status, srv_description, tileCount)

TilePayload(i, tiles) ==
    PyDict([k \in {"id", "status"} |->
              IF k = "id" THEN PyInt(i) ELSE PyStr(tiles[i])])

RECURSIVE TileListFrom(_, _, _)
\* the tiles with ids i..n-1 and a status the filter admits, in id order
TileListFrom(i, tiles, filter) ==
    IF i \notin DOMAIN tiles THEN <<>>
    ELSE IF filter = None \/ filter = PyStr(tiles[i])
         THEN <<TilePayload(i, tiles)>> \o TileListFrom(i + 1, tiles, filter)
         ELSE TileListFrom(i + 1, tiles, filter)

\* what the service answers to a GET under /process/{id}
ServerGet(rid, url, params) ==
    LET process == Append(Append(_get_batch_url, "process"), Format(rid))
        tiles   == Append(process, "tiles")
    IN  IF url = process THEN ServerDescription(rid)
        ELSE IF url = tiles
             THEN PyList(TileListFrom(0, srv_tiles, Get(params, "status")))
             ELSE TilePayload(CHOOSE i \in DOMAIN srv_tiles :
                                  url = Append(tiles, ToString(i)), srv_tiles)

ServerKnows(rid, url) ==
    LET process == Append(Append(_get_batch_url, "process"), Format(rid))
        tiles   == Append(process, "tiles")
    IN  \/ url \in {process, tiles}
        \/ \E i \in DOMAIN srv_tiles : url = Append(tiles, ToString(i))

\* the job actions the service accepts in the job's current status, and the
\* status each leaves the job in
ServerAccepts(endpoint_name) ==
    CASE endpoint_name = <<"analyse">>        -> srv_status = "CREATED"
      [] endpoint_name = <<"start">>          -> srv_status = "ANALYSIS_DONE"
      [] endpoint_name = <<"cancel">>         ->
            srv_status \in {"CREATED", "ANALYSING", "ANALYSIS_DONE", "PROCESSING"}
      [] endpoint_name = <<"restartpartial">> -> srv_status \in {"DONE", "FAILED"}
      [] OTHER                                ->
            /\ Len(endpoint_name) = 3
            /\ endpoint_name[1] = "tiles"
            /\ endpoint_name[3] = "restart"
            /\ \E i \in DOMAIN srv_tiles :
                  ToString(i) = endpoint_name[2] /\ srv_tiles[i] = "FAILED"

ServerAfter(endpoint_name) ==
    CASE endpoint_name = <<"analyse">>        -> "ANALYSING"
      [] endpoint_name = <<"start">>          -> "PROCESSING"
      [] endpoint_name = <<"cancel">>         -> "CANCELED"
      [] endpoint_name = <<"restartpartial">> -> "PROCESSING"
      [] OTHER                                -> srv_status

\* a restarted tile is pending again
ServerTilesAfter(endpoint_name) ==
    IF Len(endpoint_name) = 3
    THEN [i \in DOMAIN srv_tiles |->
            IF ToString(i) = endpoint_name[2] THEN "PENDING" ELSE srv_tiles[i]]
    ELSE srv_tiles

ActionResponse(endpoint_name, st) ==
    PyDict([k \in {"action", "status"} |->
              IF k = "action" THEN PyPath(endpoint_name) ELSE PyStr(st)])

----------------------------------------------------------------------------
\* SentinelHubBatch: construction and the cached description

\* the descriptions a caller may hand to the constructor
GivenInfos ==
    {JobDescription("a", "CREATED", None, 1),
     PyDict(Merge(JobDescription("b", "FAILED", PyStr("d1"), 1).v,
                  [k \in {"userAction"} |-> PyStr("START")])),
     PyDict([k \in {"status"} |-> PyStr("DONE")])}

InitRequestIds == {None, PyStr("")} \cup {PyStr(id) : id \in JobIds}
InitRequestInfos == {None, EmptyDict} \cup GivenInfos

Called(op, args, res, req) ==
    [op |-> op, args |-> args, outcome |-> res.outcome, value |-> res.value,
     request |-> req]

InitRejects_unless_both(rid, rinfo) == ~(Truthy(rid) /\ Truthy(rinfo))

\* `if not (request_id or request_info)`
InitRejects(rid, rinfo) == ~(Truthy(rid) \/ Truthy(rinfo))

\* `request_id if request_id else request_info['id']`
InitRequestId(rid, rinfo) ==
    IF Truthy(rid) THEN Ret(rid)
    ELSE IF "id" \in DOMAIN rinfo.v THEN Ret(rinfo.v["id"]) ELSE Raise("KeyError")

__init__(rid, rinfo) ==
    LET args == [request_id |-> rid, request_info |-> rinfo]
        id   == InitRequestId(rid, rinfo)
    IN  /\ constructed = "none"
        /\ pc = "idle"
        /\ IF InitRejects(rid, rinfo)
           THEN /\ call' = Called("__init__", args, Raise("ValueError"), NoRequest)
                /\ UNCHANGED <<constructed, request_id, request_info, origin>>
           ELSE IF id.outcome # "return"
           THEN /\ call' = Called("__init__", args, id, NoRequest)
                /\ UNCHANGED <<constructed, request_id, request_info, origin>>
           ELSE /\ call' = Called("__init__", args, Ret(None), NoRequest)
                /\ constructed' = "ok"
                /\ request_id' = id.value
                /\ request_info' = rinfo
                /\ origin' = IF rinfo = None THEN "id"
                             ELSE IF rid = None THEN "info" ELSE "both"
        /\ UNCHANGED <<fetch_count, accessed, explicit>>
        /\ UNCHANGED <<server_vars, monitor_vars>>

NeedsFetch_always == TRUE

\* info: `if self._request_info is None`
NeedsFetch == request_info = None

\* what update_info stores: client.get_json(url)
Fetched == ServerGet(request_id, _get_process_url(request_id), EmptyDict)

FetchRequest == Request("GET", _get_process_url(request_id), None, Fetched)

\* self.info: the value read, with the fetch it may cause
info == IF NeedsFetch THEN Fetched ELSE request_info

update_info ==
    /\ constructed = "ok"
    /\ pc = "idle"
    /\ fetch_count < MaxFetches
    /\ request_info' = Fetched
    /\ fetch_count' = fetch_count + 1
    /\ explicit' = TRUE
    /\ call' = Called("update_info", None, Ret(None), FetchRequest)
    /\ UNCHANGED <<constructed, request_id, origin, accessed>>
    /\ UNCHANGED <<server_vars, monitor_vars>>

\* a call of a property or method that reads self.info and changes nothing else
Accessor(op, args, res) ==
    /\ constructed = "ok"
    /\ pc = "idle"
    /\ request_info' = info
    /\ fetch_count' = IF NeedsFetch THEN fetch_count + 1 ELSE fetch_count
    /\ accessed' = TRUE
    /\ call' = Called(op, args, res, IF NeedsFetch THEN FetchRequest ELSE NoRequest)
    /\ UNCHANGED <<constructed, request_id, origin, explicit>>
    /\ UNCHANGED <<server_vars, monitor_vars>>

\* d[k1][k2]...: the value, or KeyError
RECURSIVE Subscript(_, _)
Subscript(d, path) ==
    IF path = <<>> THEN Ret(d)
    ELSE IF d.t = "dict" /\ Head(path) \in DOMAIN d.v
         THEN Subscript(d.v[Head(path)], Tail(path))
         ELSE Raise("KeyError")

evalscript_of(d) == Subscript(d, <<"processRequest", "evalscript">>)

\* (bbox, geometry, crs), or the exception raised
_parse_bounds_payload(d) ==
    LET bounds_definition == Subscript(d, <<"processRequest", "input", "bounds">>)
        crs_urn == Subscript(bounds_definition.value, <<"properties", "crs">>)
    IN  IF bounds_definition.outcome # "return" THEN bounds_definition
        ELSE IF crs_urn.outcome # "return" THEN crs_urn
        ELSE Ret([bbox     |-> Get(bounds_definition.value, "bbox"),
                  geometry |-> Get(bounds_definition.value, "geometry"),
                  crs      |-> PyObj("CRS", crs_urn.value.v[Len(crs_urn.value.v)])])

bbox_of(d) ==
    LET parsed == _parse_bounds_payload(d)
    IN  IF parsed.outcome # "return" THEN parsed
        ELSE IF parsed.value.bbox = None THEN Raise("ValueError")
        ELSE Ret(PyObj("BBox", <<parsed.value.bbox, parsed.value.crs>>))

geometry_of(d) ==
    LET parsed == _parse_bounds_payload(d)
    IN  IF parsed.outcome # "return" THEN parsed
        ELSE IF parsed.value.geometry = None THEN Raise("ValueError")
        ELSE Ret(PyObj("Geometry", <<parsed.value.geometry, parsed.value.crs>>))

_REPR_PARAM_NAMES == {"id", "description", "bucketName", "created", "status",
                      "userAction", "valueEstimate", "tileCount"}

repr_of(d) ==
    Ret(PyObj("repr", [k \in _REPR_PARAM_NAMES \cap DOMAIN d.v |-> d.v[k]]))

\* the accessors return a status only: their values play no part in what follows
get_info   == Accessor("info", None, Ret(info))
evalscript == Accessor("evalscript", None, evalscript_of(info))
bbox       == Accessor("bbox", None, bbox_of(info))
geometry   == Accessor("geometry", None, geometry_of(info))
__repr__   == Accessor("__repr__", None, repr_of(info))

StatusArgs == {PyStr("FAILED"), PyList(<<PyStr("FAILED")>>),
               PyList(<<PyStr("FAILED"), PyStr("CANCELED")>>)}

\* `if isinstance(status, str): status = [status]`
StatusList(status_arg) ==
    IF status_arg.t = "str" THEN <<status_arg>> ELSE status_arg.v

StatusMatches_equal(batch_status, status_list) == PyList(status_list) = batch_status

\* `batch_status in status`
StatusMatches(batch_status, status_list) ==
    \E i \in 1..Len(status_list) : status_list[i] = batch_status

raise_for_status_of(d, rid, status_arg) ==
    LET batch_status  == Subscript(d, <<"status">>)
        error_message == IF "error" \in DOMAIN d.v THEN d.v["error"] ELSE PyStr("")
    IN  IF batch_status.outcome # "return" THEN batch_status
        ELSE IF StatusMatches(batch_status.value, StatusList(status_arg))
        THEN [outcome |-> "RuntimeError",
              value   |-> PyObj("message",
                                <<rid, batch_status.value,
                                  IF Truthy(error_message) THEN error_message
                                  ELSE None>>)]
        ELSE Ret(None)

raise_for_status(status_arg) ==
    Accessor("raise_for_status", status_arg,
             raise_for_status_of(info, request_id, status_arg))

----------------------------------------------------------------------------
\* SentinelHubBatch: update and the job actions

Kwargs == {EmptyMap} \cup
          {[k \in {"extra"} |-> v] : v \in {None, PyInt(0), PyBool(FALSE)}}

UpdateResult_merged(old, response) ==
    IF old = None THEN response ELSE PyDict(Merge(old.v, response.v))

\* `self._request_info = self.client.get_json(...)`
UpdateResult(old, response) == response

update(output, description, kwargs) ==
    LET given    == Merge([k \in {"output", "description"} |->
                             IF k = "output" THEN output ELSE description], kwargs)
        payload  == remove_undefined(given)
        url      == _get_process_url(request_id)
        new_desc == IF "description" \in DOMAIN payload THEN payload["description"]
                    ELSE srv_description
        response == JobDescription(Format(request_id), srv_status, new_desc, tileCount)
    IN  /\ constructed = "ok"
        /\ pc = "idle"
        /\ srv_description' = new_desc
        /\ request_info' = UpdateResult(request_info, response)
        /\ explicit' = TRUE
        /\ call' = Called("update", PyDict(given), Ret(None),
                          Request(get_json_verb(PyDict(payload), PyStr("PUT")), url,
                                  PyDict(payload), response))
        /\ UNCHANGED <<constructed, request_id, origin, fetch_count, accessed>>
        /\ UNCHANGED <<srv_status, tileCount, srv_tiles, monitor_vars>>

\* a POST to {process_url}/{endpoint_name}: the request, its effect on the service,
\* and new_info, what the handle caches after it
CallJob(endpoint_name, new_info) ==
    /\ constructed = "ok"
    /\ pc = "idle"
    /\ ServerAccepts(endpoint_name)
    /\ srv_status' = ServerAfter(endpoint_name)
    /\ srv_tiles' = ServerTilesAfter(endpoint_name)
    /\ request_info' = new_info
    /\ UNCHANGED <<constructed, request_id, origin, fetch_count, accessed, explicit>>
    /\ UNCHANGED <<srv_description, tileCount, monitor_vars>>

CallJobRequest(endpoint_name) ==
    Request(get_json_verb(None, PyStr("POST")),
            _get_process_url(request_id) \o endpoint_name, None,
            ActionResponse(endpoint_name, ServerAfter(endpoint_name)))

_call_job_caching(endpoint_name) ==
    CallJob(endpoint_name, CallJobRequest(endpoint_name).response)

_call_job(endpoint_name) == CallJob(endpoint_name, request_info)

\* a job action: `return self._call_job(endpoint)`
JobAction(op, endpoint_name) ==
    /\ _call_job(endpoint_name)
    /\ call' = Called(op, None, Ret(CallJobRequest(endpoint_name).response),
                      CallJobRequest(endpoint_name))

start_analysis == JobAction("start_analysis", <<"analyse">>)
start_job      == JobAction("start_job", <<"start">>)
cancel_job     == JobAction("cancel_job", <<"cancel">>)
restart_job    == JobAction("restart_job", <<"restartpartial">>)

----------------------------------------------------------------------------
\* SentinelHubBatch: tiles

\* the tile ids a caller may name: the job's tiles
TileIds == {PyInt(i) : i \in DOMAIN srv_tiles}

\* a call that reads the job's tiles and leaves the handle as it was
TileCall(op, args, verb, url, params) ==
    /\ constructed = "ok"
    /\ pc = "idle"
    /\ ServerKnows(request_id, url)
    /\ call' = Called(op, args, Ret(ServerGet(request_id, url, params)),
                      Request(verb, url, None, ServerGet(request_id, url, params)))
    /\ UNCHANGED <<handle_vars, server_vars, monitor_vars>>

\* iter_tiles, read to its end
iter_tiles(status_filter) ==
    TileCall("iter_tiles", status_filter, "GET", _get_tiles_url(request_id, None),
             PyDict([k \in {"status"} |-> status_filter]))

get_tile(tile_id) ==
    TileCall("get_tile", tile_id, get_json_verb(None, None),
             _get_tiles_url(request_id, tile_id), EmptyDict)

reprocess_tile(tile_id) ==
    /\ _call_job(<<"tiles", Format(tile_id), "restart">>)
    /\ call' = Called("reprocess_tile", tile_id, Ret(None),
                      CallJobRequest(<<"tiles", Format(tile_id), "restart">>))

----------------------------------------------------------------------------
\* The service's own progress on a job

ServerNext(st) ==
    CASE st = "ANALYSING"  -> {"ANALYSIS_DONE", "FAILED"}
      [] st = "PROCESSING" -> {"DONE", "FAILED"}
      [] OTHER             -> {}

ServerStep ==
    /\ pc = "idle"
    /\ \E st \in ServerNext(srv_status) : srv_status' = st
    /\ UNCHANGED <<srv_description, tileCount, srv_tiles>>
    /\ UNCHANGED <<handle_vars, call, monitor_vars>>

----------------------------------------------------------------------------
\* The handle and its operations

NoCall == [op |-> "none", args |-> None, outcome |-> "none", value |-> None,
           request |-> NoRequest]

InitTiles(tc) == [i \in 0..(tc - 1) |-> IF i % 2 = 0 THEN "FAILED" ELSE "PROCESSED"]

NoHandle ==
    /\ constructed = "none"
    /\ request_id = None
    /\ request_info = None
    /\ origin = "none"
    /\ fetch_count = 0
    /\ accessed = FALSE
    /\ explicit = FALSE

MonitorIdle ==
    /\ pc = "idle"
    /\ status = Unbound
    /\ finished_count = Unbound
    /\ success_count = Unbound
    /\ total_tile_count = Unbound
    /\ tiles_per_status = Unbound
    /\ processed_tiles_num = Unbound
    /\ failed_tiles_num = Unbound
    /\ tile_requests = 0
    /\ sample_sleeps = 0
    /\ logged = None

Init ==
    /\ NoHandle
    /\ srv_status = "CREATED"
    /\ srv_description = None
    /\ tileCount = MaxTiles
    /\ srv_tiles = InitTiles(tileCount)
    /\ call = NoCall
    /\ MonitorIdle

\* the arguments update is called with: output, description, **kwargs
UpdateArgs ==
    {<<None, d, k>> : d \in {None} \cup Descriptions, k \in Kwargs}
    \cup {<<EmptyDict, None, EmptyMap>>}

Next ==
    \/ \E rid \in InitRequestIds, rinfo \in InitRequestInfos : __init__(rid, rinfo)
    \/ update_info
    \/ get_info
    \/ evalscript
    \/ bbox
    \/ geometry
    \/ __repr__
    \/ \E status_arg \in StatusArgs : raise_for_status(status_arg)
    \/ \E a \in UpdateArgs : update(a[1], a[2], a[3])
    \/ start_analysis
    \/ start_job
    \/ cancel_job
    \/ restart_job
    \/ ServerStep

Spec == Init /\ [][Next]_vars

----------------------------------------------------------------------------
\* A handle of a job with tiles, and the tile operations

\* the service reports a tile's progress
ServerTileStep ==
    /\ pc = "idle"
    /\ \E i \in DOMAIN srv_tiles, st \in TileStatus :
          /\ srv_tiles[i] = "PENDING"
          /\ st # "PENDING"
          /\ srv_tiles' = [srv_tiles EXCEPT ![i] = st]
    /\ UNCHANGED <<srv_status, srv_description, tileCount>>
    /\ UNCHANGED <<handle_vars, call, monitor_vars>>

TilesInit ==
    /\ constructed = "ok"
    /\ request_id \in {PyStr(id) : id \in JobIds}
    /\ request_info = None
    /\ origin = "id"
    /\ fetch_count = 0
    /\ accessed = FALSE
    /\ explicit = FALSE
    /\ srv_status = "CREATED"
    /\ srv_description = None
    /\ tileCount \in 0..MaxTiles
    /\ srv_tiles = [i \in 0..(tileCount - 1) |-> "PENDING"]
    /\ call = NoCall
    /\ MonitorIdle

TilesNext ==
    \/ \E status_filter \in {None, PyStr("PROCESSED")} : iter_tiles(status_filter)
    \/ \E tile_id \in TileIds : get_tile(tile_id)
    \/ \E tile_id \in TileIds : reprocess_tile(tile_id)
    \/ start_analysis
    \/ start_job
    \/ cancel_job
    \/ restart_job
    \/ ServerStep
    \/ ServerTileStep

SpecTiles == TilesInit /\ [][TilesNext]_vars

----------------------------------------------------------------------------
\* The payload helpers, create, and the collection operations

Buffers == {None, PyTuple(<<PyInt(0), PyInt(0)>>), PyTuple(<<PyInt(50), PyInt(50)>>)}

tiling_grid_payload(grid_id, resolution, buffer, kwargs) ==
    LET payload == Merge([k \in {"id", "resolution"} |->
                            IF k = "id" THEN grid_id ELSE resolution], kwargs)
    IN  IF Truthy(buffer)
        THEN Merge(payload, [k \in {"bufferX", "bufferY"} |->
                               IF k = "bufferX" THEN buffer.v[1] ELSE buffer.v[2]])
        ELSE payload

OutputParams == {"defaultTilePath", "overwrite", "skipExisting", "cogOutput",
                 "cogParameters", "createCollection", "collectionId", "responses"}

\* the named parameters of output(...): the ones given, the rest at their default
OutputNamed(default_tile_path, overwrite, cog_output) ==
    [k \in OutputParams |->
       CASE k = "defaultTilePath" -> default_tile_path
         [] k = "overwrite"       -> overwrite
         [] k = "cogOutput"       -> cog_output
         [] OTHER                 -> None]

output_payload(named, kwargs) == remove_undefined(Merge(named, kwargs))

StaticCall(op, args, res) ==
    /\ pc = "idle"
    /\ call' = Called(op, args, res, NoRequest)
    /\ UNCHANGED <<handle_vars, server_vars, monitor_vars>>

tiling_grid(grid_id, resolution, buffer, kwargs) ==
    StaticCall("tiling_grid",
               PyDict(Merge([k \in {"id", "resolution", "buffer"} |->
                               CASE k = "id" -> grid_id
                                 [] k = "resolution" -> resolution
                                 [] k = "buffer" -> buffer], kwargs)),
               Ret(PyDict(tiling_grid_payload(grid_id, resolution, buffer, kwargs))))

output(default_tile_path, overwrite, cog_output, kwargs) ==
    LET named == OutputNamed(default_tile_path, overwrite, cog_output)
    IN  StaticCall("output", PyDict(Merge(named, kwargs)),
                   Ret(PyDict(output_payload(named, kwargs))))

\* the process requests create is given: a SentinelHubRequest, a payload
\* dictionary, or something else
SentinelHubRequests ==
    {PyObj("SentinelHubRequest", <<ProcessRequest("a")>>), ProcessRequest("a"),
     PyStr("request")}

\* create: the payload dictionary of its first argument, or ValueError
create_request(sentinelhub_request) ==
    LET given == IF sentinelhub_request.t = "SentinelHubRequest"
                 THEN sentinelhub_request.v[1] ELSE sentinelhub_request
    IN  IF given.t # "dict" THEN Raise("ValueError") ELSE Ret(given)

create_payload(process_request, grid, out, bucket_name, description, kwargs) ==
    remove_undefined(
        Merge([k \in {"processRequest", "tilingGrid", "output", "bucketName",
                       "description"} |->
                 CASE k = "processRequest" -> process_request
                   [] k = "tilingGrid"     -> grid
                   [] k = "output"         -> out
                   [] k = "bucketName"     -> bucket_name
                   [] k = "description"    -> description], kwargs))

create(sentinelhub_request, grid, out, bucket_name, description, kwargs) ==
    LET request  == create_request(sentinelhub_request)
        args     == PyDict(Merge([k \in {"processRequest", "tilingGrid", "output",
                                         "bucketName", "description"} |->
                                    CASE k = "processRequest" -> sentinelhub_request
                                      [] k = "tilingGrid"     -> grid
                                      [] k = "output"         -> out
                                      [] k = "bucketName"     -> bucket_name
                                      [] k = "description"    -> description],
                                 kwargs))
        payload  == PyDict(create_payload(request.value, grid, out, bucket_name,
                                          description, kwargs))
    IN  /\ pc = "idle"
        /\ IF request.outcome # "return"
           THEN /\ call' = Called("create", args, request, NoRequest)
                /\ UNCHANGED <<handle_vars, server_vars>>
           ELSE \E id \in JobIds :
                  LET response == JobDescription(id, "CREATED", description, tileCount)
                  IN  /\ ~InitRejects(None, response)
                      /\ constructed' = "ok"
                      /\ request_id' = InitRequestId(None, response).value
                      /\ request_info' = response
                      /\ origin' = "info"
                      /\ fetch_count' = 0
                      /\ accessed' = FALSE
                      /\ explicit' = FALSE
                      /\ srv_status' = "CREATED"
                      /\ srv_description' = description
                      /\ call' = Called("create", args, Ret(None),
                                        Request(get_json_verb(payload, None),
                                                _get_process_url(None), payload,
                                                response))
                      /\ UNCHANGED <<tileCount, srv_tiles>>
        /\ UNCHANGED monitor_vars

CollectionIds == {"c1", "c2"}

BatchCollection(collection_id) ==
    PyObj("BatchCollection",
          [f \in {"name", "s3_bucket", "collection_id"} |->
             CASE f = "name"          -> PyStr("collection")
               [] f = "s3_bucket"     -> PyStr("bucket")
               [] f = "collection_id" -> collection_id])

DataCollection(collection_id) ==
    PyObj("DataCollection", [f \in {"collection_id"} |-> collection_id])

\* BatchCollection.to_dict(): camel-case keys, collection_id under 'id'
to_dict(data) ==
    PyDict([k \in {"name", "s3Bucket", "id", "userId", "created", "noData",
                    "additionalData", "batchData"} |->
              CASE k = "name"     -> data.v["name"]
                [] k = "s3Bucket" -> data.v["s3_bucket"]
                [] k = "id"       -> data.v["collection_id"]
                [] OTHER          -> None])

CollectionDict(collection_id) ==
    PyDict([k \in {"id", "name", "s3Bucket"} |->
              CASE k = "id"       -> collection_id
                [] k = "name"     -> PyStr("collection")
                [] k = "s3Bucket" -> PyStr("bucket")])

\* what a caller may pass as `collection`
Collections ==
    UNION {{BatchCollection(PyStr(c)), DataCollection(PyStr(c)),
            CollectionDict(PyStr(c)), PyStr(c)} : c \in CollectionIds}
    \cup {BatchCollection(None), PyInt(7), None, PyList(<<PyStr("c1")>>)}

_parse_collection_id_not_str(data) ==
    IF data.t \in {"BatchCollection", "DataCollection"}
    THEN Ret(data.v["collection_id"])
    ELSE IF data.t = "dict"
         THEN Subscript(data, <<"id">>)
         ELSE Raise("ValueError")

_parse_collection_id(data) ==
    IF data.t \in {"BatchCollection", "DataCollection"}
    THEN Ret(data.v["collection_id"])
    ELSE IF data.t = "dict"
         THEN Subscript(data, <<"id">>)
         ELSE IF data.t = "str" THEN Ret(data) ELSE Raise("ValueError")

_to_dict(data) ==
    IF data.t = "BatchCollection" THEN Ret(to_dict(data))
    ELSE IF data.t = "dict" THEN Ret(data) ELSE Raise("ValueError")

\* the service's answer to a request on a collection
CollectionResponse(verb, collection_id) ==
    IF verb = "DELETE" THEN PyStr("")
    ELSE PyDict([k \in {"data"} |-> CollectionDict(collection_id)])

update_collection(collection) ==
    LET collection_id == _parse_collection_id(collection)
        url == Append(_get_collections_url, Format(collection_id.value))
        collection_payload == _to_dict(collection)
        verb == get_json_verb(collection_payload.value, PyStr("PUT"))
    IN  /\ pc = "idle"
        /\ call' =
              IF collection_id.outcome # "return"
              THEN Called("update_collection", collection, collection_id, NoRequest)
              ELSE IF collection_payload.outcome # "return"
              THEN Called("update_collection", collection, collection_payload,
                          NoRequest)
              ELSE Called("update_collection", collection,
                          Ret(CollectionResponse(verb, collection_id.value)),
                          Request(verb, url, collection_payload.value,
                                  CollectionResponse(verb, collection_id.value)))
        /\ UNCHANGED <<handle_vars, server_vars, monitor_vars>>

delete_collection(collection) ==
    LET collection_id == _parse_collection_id(collection)
        url == Append(_get_collections_url, Format(collection_id.value))
        verb == get_json_verb(None, PyStr("DELETE"))
    IN  /\ pc = "idle"
        /\ call' =
              IF collection_id.outcome # "return"
              THEN Called("delete_collection", collection, collection_id, NoRequest)
              ELSE Called("delete_collection", collection,
                          Ret(CollectionResponse(verb, collection_id.value)),
                          Request(verb, url, None,
                                  CollectionResponse(verb, collection_id.value)))
        /\ UNCHANGED <<handle_vars, server_vars, monitor_vars>>

\* the tiling grids and outputs create is given: built by the helpers
GivenGrids == {PyDict(tiling_grid_payload(PyInt(1), PyInt(10), None, k)) :
                 k \in {EmptyMap, [x \in {"extra"} |-> None]}}
GivenOutputs == {None, PyDict(output_payload(OutputNamed(None, PyBool(FALSE), None),
                                             EmptyMap))}

StaticNext ==
    \/ \E grid_id \in {PyInt(0), PyInt(1)}, buffer \in Buffers, kwargs \in Kwargs :
          tiling_grid(grid_id, PyInt(10), buffer, kwargs)
    \/ \E default_tile_path \in {None, PyStr("path")},
          overwrite \in {None, PyBool(FALSE), PyBool(TRUE)},
          cog_output \in {None, PyBool(FALSE)}, kwargs \in Kwargs :
          output(default_tile_path, overwrite, cog_output, kwargs)
    \/ \E sentinelhub_request \in SentinelHubRequests, grid \in GivenGrids,
          out \in GivenOutputs, bucket_name \in {None, PyStr("bucket")},
          description \in {None} \cup Descriptions, kwargs \in Kwargs :
          create(sentinelhub_request, grid, out, bucket_name, description, kwargs)
    \/ \E collection \in Collections : update_collection(collection)
    \/ \E collection \in Collections : delete_collection(collection)

SpecStatic == Init /\ [][StaticNext]_vars

----------------------------------------------------------------------------
\* get_batch_tiles_per_status and monitor_batch_job

\* the tile statuses of a list of tile payloads
StatusesIn(tiles) == {tiles[i].v["status"].v : i \in 1..Len(tiles)}

\* the tiles grouped by tile['status'], each group in the order of the list
get_batch_tiles_per_status(tiles) ==
    PyDict([st \in StatusesIn(tiles) |->
              PyList(SelectSeq(tiles, LAMBDA tile : tile.v["status"].v = st))])

\* len(tiles_per_status.get(key, []))
NumberOf(tiles, key) ==
    IF key \in DOMAIN tiles.v THEN Len(tiles.v[key].v) ELSE 0

PreProcessing == {"CREATED", "ANALYSING", "ANALYSIS_DONE"}

MonitorFailureStatuses_failed_only == PyList(<<PyStr("FAILED")>>)

\* `batch_request.raise_for_status(status=['FAILED', 'CANCELED'])`
MonitorFailureStatuses == PyList(<<PyStr("FAILED"), PyStr("CANCELED")>>)

\* a count of the run that the model follows up to Max
Counted(n, Max) == IF n < Max THEN n + 1 ELSE n

MonitorResult(res, req) == Called("monitor_batch_job", None, res, req)

\* batch_request.update_info(); status = batch_request.info['status']
MonitorUpdateInfo ==
    /\ request_info' = Fetched
    /\ fetch_count' = Counted(fetch_count, MaxFetches)
    /\ status' = Fetched.v["status"]
    /\ pc' = "while_status"
    /\ UNCHANGED <<constructed, request_id, origin, accessed, explicit>>
    /\ UNCHANGED <<finished_count, success_count, total_tile_count, tiles_per_status,
                   processed_tiles_num, failed_tiles_num, tile_requests, sample_sleeps,
                   logged>>
    /\ UNCHANGED <<server_vars, call>>

\* the call of monitor_batch_job, to its first reading of the status
monitor_batch_job ==
    /\ constructed = "ok"
    /\ pc = "idle"
    /\ MonitorUpdateInfo

\* `while status in [...]`: sleep again, or leave the loop for the status check and
\* the set-up of the counters
WhileStatus ==
    /\ pc = "while_status"
    /\ IF status.v \in PreProcessing
       THEN /\ pc' = "sleep_analysis"
            /\ UNCHANGED <<finished_count, success_count, total_tile_count, call>>
       ELSE LET checked == raise_for_status_of(info, request_id,
                                               MonitorFailureStatuses)
            IN  IF checked.outcome # "return"
                THEN /\ pc' = "raised"
                     /\ call' = MonitorResult(checked, NoRequest)
                     /\ UNCHANGED <<finished_count, success_count,
                                    total_tile_count>>
                ELSE /\ pc' = "while_finished"
                     /\ finished_count' = PyInt(0)
                     /\ success_count' = PyInt(0)
                     /\ total_tile_count' = info.v["tileCount"]
                     /\ UNCHANGED call
    /\ UNCHANGED <<status, tiles_per_status, processed_tiles_num, failed_tiles_num,
                   tile_requests, sample_sleeps, logged>>
    /\ UNCHANGED <<handle_vars, server_vars>>

\* time.sleep(analysis_sleep_time) ends: the status is read again
AnalysisSleep ==
    /\ pc = "sleep_analysis"
    /\ MonitorUpdateInfo

MoreToDo_or_equal == finished_count.v <= total_tile_count.v

\* `finished_count < total_tile_count`
MoreToDo == finished_count.v < total_tile_count.v

SleepsAfter_every_sample(finished, total) == TRUE

\* `if finished_count < total_tile_count: time.sleep(sleep_time)`
SleepsAfter(finished, total) == finished < total

\* one pass of the sampling loop, to its sleep or to the next test of the loop
Sample ==
    LET url    == _get_tiles_url(request_id, None)
        listed == ServerGet(request_id, url, PyDict([k \in {"status"} |-> None]))
        tiles  == get_batch_tiles_per_status(listed.v)
        new_success_count  == NumberOf(tiles, "PROCESSED")
        new_finished_count == NumberOf(tiles, "PROCESSED") + NumberOf(tiles, "FAILED")
    IN  /\ pc = "while_finished"
        /\ MoreToDo
        /\ tile_requests' = Counted(tile_requests, MaxSamples)
        /\ tiles_per_status' = tiles
        /\ processed_tiles_num' = PyInt(NumberOf(tiles, "PROCESSED"))
        /\ failed_tiles_num' = PyInt(NumberOf(tiles, "FAILED"))
        /\ finished_count' = PyInt(new_finished_count)
        /\ success_count' = PyInt(new_success_count)
        /\ IF SleepsAfter(new_finished_count, total_tile_count.v)
           THEN /\ pc' = "sleep_sample"
                /\ sample_sleeps' = Counted(sample_sleeps, MaxSamples)
           ELSE /\ pc' = "while_finished"
                /\ UNCHANGED sample_sleeps
        /\ UNCHANGED <<status, total_tile_count, logged, call>>
        /\ UNCHANGED <<handle_vars, server_vars>>

\* time.sleep(sleep_time) ends
SampleSleep ==
    /\ pc = "sleep_sample"
    /\ pc' = "while_finished"
    /\ UNCHANGED <<status, finished_count, success_count, total_tile_count,
                   tiles_per_status, processed_tiles_num, failed_tiles_num,
                   tile_requests, sample_sleeps, logged>>
    /\ UNCHANGED <<handle_vars, server_vars, call>>

\* the loop is left: the report of failed tiles and the return
Finish ==
    /\ pc = "while_finished"
    /\ ~MoreToDo
    /\ IF failed_tiles_num = Unbound
       THEN /\ pc' = "raised"
            /\ call' = MonitorResult(Raise("UnboundLocalError"), NoRequest)
            /\ UNCHANGED logged
       ELSE /\ pc' = "done"
            /\ logged' = IF Truthy(failed_tiles_num) THEN processed_tiles_num
                         ELSE None
            /\ call' = MonitorResult(Ret(tiles_per_status), NoRequest)
    /\ UNCHANGED <<status, finished_count, success_count, total_tile_count,
                   tiles_per_status, processed_tiles_num, failed_tiles_num,
                   tile_requests, sample_sleeps>>
    /\ UNCHANGED <<handle_vars, server_vars>>

AfterFailure_carries_on(at) == at

\* where the monitor is after a remote call made at `at` raised: no statement of
\* the function catches the exception
AfterFailure(at) == "raised"

\* a remote call of the monitor fails: the transport's exception leaves the function
RemoteCallFails ==
    /\ constructed = "ok"
    /\ \/ /\ pc \in {"idle", "sleep_analysis"}
          /\ fetch_count' = Counted(fetch_count, MaxFetches)
          /\ call' = MonitorResult(Raise("DownloadFailedException"),
                                   Request("GET", _get_process_url(request_id), None,
                                           None))
          /\ UNCHANGED tile_requests
       \/ /\ pc = "while_finished"
          /\ MoreToDo
          /\ tile_requests' = Counted(tile_requests, MaxSamples)
          /\ call' = MonitorResult(Raise("DownloadFailedException"),
                                   Request("GET", _get_tiles_url(request_id, None),
                                           None, None))
          /\ UNCHANGED fetch_count
    /\ pc' = AfterFailure(pc)
    /\ UNCHANGED <<constructed, request_id, request_info, origin, accessed, explicit>>
    /\ UNCHANGED <<status, finished_count, success_count, total_tile_count,
                   tiles_per_status, processed_tiles_num, failed_tiles_num,
                   sample_sleeps, logged>>
    /\ UNCHANGED server_vars

\* the service, while a job is watched: the job's status moves on
JobStatusNext(st) ==
    CASE st = "CREATED"       -> {"ANALYSING", "CANCELED"}
      [] st = "ANALYSING"     -> {"ANALYSIS_DONE", "FAILED", "CANCELED"}
      [] st = "ANALYSIS_DONE" -> {"PROCESSING", "CANCELED"}
      [] st = "PROCESSING"    ->
            {"FAILED", "CANCELED"} \cup
            (IF \A i \in DOMAIN srv_tiles : srv_tiles[i] # "PENDING"
             THEN {"DONE"} ELSE {})
      [] OTHER                -> {}

JobProgress ==
    /\ \E st \in JobStatusNext(srv_status) : srv_status' = st
    /\ UNCHANGED <<srv_description, tileCount, srv_tiles>>
    /\ UNCHANGED <<handle_vars, call, monitor_vars>>

\* a tile of a job in processing is processed or fails
TileProgress ==
    /\ srv_status = "PROCESSING"
    /\ \E i \in DOMAIN srv_tiles, st \in {"PROCESSED", "FAILED"} :
          /\ srv_tiles[i] = "PENDING"
          /\ srv_tiles' = [srv_tiles EXCEPT ![i] = st]
    /\ UNCHANGED <<srv_status, srv_description, tileCount>>
    /\ UNCHANGED <<handle_vars, call, monitor_vars>>

\* a failed tile is restarted (reprocess_tile, from elsewhere) and is pending again
TileRestart ==
    /\ srv_status \in {"PROCESSING", "DONE", "FAILED"}
    /\ \E i \in DOMAIN srv_tiles :
          /\ srv_tiles[i] = "FAILED"
          /\ srv_tiles' = [srv_tiles EXCEPT ![i] = "PENDING"]
    /\ UNCHANGED <<srv_status, srv_description, tileCount>>
    /\ UNCHANGED <<handle_vars, call, monitor_vars>>

MonitorInit ==
    /\ constructed = "ok"
    /\ request_id = PyStr("a")
    /\ request_info = None
    /\ origin = "id"
    /\ fetch_count = 0
    /\ accessed = FALSE
    /\ explicit = FALSE
    /\ srv_status = "CREATED"
    /\ srv_description = None
    /\ tileCount \in 0..MaxTiles
    /\ srv_tiles = [i \in 0..(tileCount - 1) |-> "PENDING"]
    /\ call = NoCall
    /\ MonitorIdle

MonitorStep ==
    \/ monitor_batch_job
    \/ WhileStatus
    \/ AnalysisSleep
    \/ Sample
    \/ SampleSleep
    \/ Finish

MonitorNext ==
    \/ MonitorStep
    \/ RemoteCallFails
    \/ JobProgress
    \/ TileProgress
    \/ TileRestart

SpecMonitor == MonitorInit /\ [][MonitorNext]_vars

\* The scenario of a job that runs through: the service reports CREATED, then
\* ANALYSING, then PROCESSING, and then every tile is processed and none fails.
ScenarioJobProgress ==
    /\ \/ srv_status = "CREATED" /\ srv_status' = "ANALYSING"
       \/ srv_status = "ANALYSING" /\ srv_status' = "PROCESSING"
    /\ UNCHANGED <<srv_description, tileCount, srv_tiles>>
    /\ UNCHANGED <<handle_vars, call, monitor_vars>>

ScenarioTileProgress ==
    /\ srv_status = "PROCESSING"
    /\ \E i \in DOMAIN srv_tiles :
          /\ srv_tiles[i] = "PENDING"
          /\ srv_tiles' = [srv_tiles EXCEPT ![i] = "PROCESSED"]
    /\ UNCHANGED <<srv_status, srv_description, tileCount>>
    /\ UNCHANGED <<handle_vars, call, monitor_vars>>

ScenarioInit ==
    /\ MonitorInit
    /\ tileCount >= 1

ScenarioNext ==
    \/ MonitorStep
    \/ ScenarioJobProgress
    \/ ScenarioTileProgress

\* the monitor runs on (its sleeps end and its requests are answered) and the
\* service makes the progress the scenario states
SpecScenario ==
    /\ ScenarioInit
    /\ [][ScenarioNext]_vars
    /\ WF_vars(MonitorStep)
    /\ WF_vars(ScenarioJobProgress)
    /\ WF_vars(ScenarioTileProgress)

\* monitor_batch_job against any service, the monitor running on: each of its
\* sleeps ends and each of its requests gets an answer or fails
SpecMonitorFair ==
    /\ MonitorInit
    /\ [][MonitorNext]_vars
    /\ WF_vars(MonitorStep)

----------------------------------------------------------------------------
\* Properties of the handle

\* the URL {base}/process/{id} of the handle's job
JobUrl == <<"sh_base_url", "api", "v1", "batch", "process", request_id.v>>

JobActions == [start_analysis |-> "analyse", start_job |-> "start",
               cancel_job |-> "cancel", restart_job |-> "restartpartial"]

CachedStatus == request_info.v["status"].v

\* C1: constructing a handle with neither a request id nor a request description
\* raises ValueError and makes no remote call; with an identifier alone, or with a
\* description alone, construction succeeds, and in the second case request_id is
\* the description's 'id'.
C1_Construction ==
    call.op = "__init__" =>
        LET rid   == call.args.request_id
            rinfo == call.args.request_info
        IN  /\ (rid = None /\ rinfo = None) =>
                  /\ call.outcome = "ValueError"
                  /\ constructed = "none"
                  /\ call.request = NoRequest
                  /\ fetch_count = 0
            /\ (rid \in {PyStr(id) : id \in JobIds} /\ rinfo = None) =>
                  /\ call.outcome = "return"
                  /\ constructed = "ok"
                  /\ request_id = rid
            /\ (rid = None /\ rinfo.t = "dict" /\ "id" \in DOMAIN rinfo.v) =>
                  /\ call.outcome = "return"
                  /\ constructed = "ok"
                  /\ request_id = rinfo.v["id"]
                  /\ request_info = rinfo

C1_Witness ==
    /\ call.op = "__init__"
    /\ call.outcome = "return"
    /\ call.args.request_id = None
    /\ request_id = PyStr("b")

\* C2: with no explicit update_info or update call, a handle constructed from an
\* identifier has issued exactly one fetch of the description once any accessor has
\* been called (and none before), however many accessor calls follow; a handle
\* constructed from a description has issued none.
C2_SingleImplicitFetch ==
    (constructed = "ok" /\ ~explicit) =>
        /\ origin = "id" => fetch_count = (IF accessed THEN 1 ELSE 0)
        /\ origin = "info" => fetch_count = 0

\* a later accessor call on an identifier-built handle that issued no request
C2_Witness ==
    /\ constructed = "ok"
    /\ ~explicit
    /\ origin = "id"
    /\ call.op = "evalscript"
    /\ call.request = NoRequest
    /\ fetch_count = 1

\* C3: after update(...) the cached description is exactly the service's response
\* to the PUT request, whatever the cache held before and whatever was passed.
C3_UpdateReplacesCache ==
    call.op = "update" =>
        /\ call.request.verb = "PUT"
        /\ call.request.url = JobUrl
        /\ request_info = call.request.response

\* an update of a handle whose cache held 'userAction' and 'error', keys the
\* response does not carry
C3_Witness ==
    /\ call.op = "update"
    /\ origin = "info"
    /\ request_id = PyStr("b")
    /\ "description" \notin DOMAIN call.request.body.v
    /\ "userAction" \notin DOMAIN request_info.v
    /\ "error" \notin DOMAIN request_info.v

\* C4: start_analysis, start_job, cancel_job and restart_job each issue one POST to
\* {base}/process/{id}/{action}, return the response body, and leave the cached
\* description and request_id as they were.
C4_ActionsKeepCache ==
    [][\A op \in DOMAIN JobActions :
          JobAction(op, <<JobActions[op]>>) =>
              /\ request_info' = request_info
              /\ request_id' = request_id
              /\ call'.request.verb = "POST"
              /\ call'.request.url = Append(JobUrl, JobActions[op])
              /\ call'.outcome = "return"
              /\ call'.value = call'.request.response]_vars

\* a job action has changed the status on the service and the cache still holds the
\* earlier one
C4_Witness ==
    /\ call.op = "cancel_job"
    /\ request_info # None
    /\ "status" \in DOMAIN request_info.v
    /\ CachedStatus = "PROCESSING"
    /\ srv_status = "CANCELED"

FailedArgs == {PyStr("FAILED"), PyList(<<PyStr("FAILED")>>)}

\* C5: raise_for_status(['FAILED']) and raise_for_status('FAILED') raise
\* RuntimeError exactly when the status of the description is FAILED, return
\* normally for every other status, and leave a cached description as it was.
C5_RaiseForStatus ==
    [][\A status_arg \in FailedArgs :
          (raise_for_status(status_arg) /\ "status" \in DOMAIN request_info'.v) =>
              /\ request_info'.v["status"].v \in JobStatus
              /\ IF request_info'.v["status"].v = "FAILED"
                 THEN call'.outcome = "RuntimeError"
                 ELSE call'.outcome = "return"
              /\ request_info # None => request_info' = request_info]_vars

C5_Witness ==
    /\ call.op = "raise_for_status"
    /\ call.args = PyList(<<PyStr("FAILED")>>)
    /\ call.outcome = "return"
    /\ call.request = NoRequest
    /\ CachedStatus = "CANCELED"

\* C10: get_tile(tileId) requests exactly {base}/process/{id}/tiles/{tileId}, for
\* every tile id, 0 included; iter_tiles requests {base}/process/{id}/tiles; a job
\* action requests {base}/process/{id}/{action}.
C10_HierarchicalUrls ==
    /\ call.op = "get_tile" =>
          call.request.url = JobUrl \o <<"tiles", ToString(call.args.v)>>
    /\ call.op = "iter_tiles" => call.request.url = Append(JobUrl, "tiles")
    /\ call.op \in DOMAIN JobActions =>
          call.request.url = Append(JobUrl, JobActions[call.op])

----------------------------------------------------------------------------
\* Properties of monitor_batch_job

\* C6: when the status with which monitor_batch_job leaves its pre-processing wait
\* is FAILED or CANCELED, the run has requested no tile listing, it goes nowhere
\* but to the status check, and it ends there with a RuntimeError.
C6_FailedJobRaises ==
    (status # Unbound /\ status.v \in {"FAILED", "CANCELED"}) =>
        /\ tile_requests = 0
        /\ pc \in {"while_status", "raised"}
        /\ pc = "raised" =>
              /\ call.op = "monitor_batch_job"
              /\ call.outcome = "RuntimeError"

C6_Witness ==
    /\ pc = "raised"
    /\ status = PyStr("CANCELED")
    /\ call.op = "monitor_batch_job"
    /\ call.outcome = "RuntimeError"
    /\ tile_requests = 0

\* C7: against a service that reports CREATED, then ANALYSING, then PROCESSING, and
\* whose tiles are then all processed and none fails, monitor_batch_job returns, and
\* what it returns is a mapping whose only key is PROCESSED, with a list of
\* tileCount tiles.
C7_MonitorReturns ==
    /\ <>(pc = "done")
    /\ [](pc = "done" =>
            /\ call.op = "monitor_batch_job"
            /\ call.outcome = "return"
            /\ DOMAIN call.value.v = {"PROCESSED"}
            /\ Len(call.value.v["PROCESSED"].v) = tileCount)

\* a run that returned after more than one sample of a job of several tiles
C7_Witness ==
    /\ pc = "done"
    /\ tileCount > 1
    /\ tile_requests > 1
    /\ sample_sleeps > 0
    /\ DOMAIN call.value.v = {"PROCESSED"}

\* the monitor is in its tile-sampling phase
Sampling == pc \in {"while_finished", "sleep_sample"}

\* the monitor has returned or raised
MonitorEnded == pc \in {"done", "raised"}

\* the states the tiles of a job can be in
TileStates == UNION {[0..(n - 1) -> TileStatus] : n \in 0..MaxTiles}

\* the number of tiles that are PROCESSED or FAILED
FinishedIn(tiles) == Cardinality({i \in DOMAIN tiles : tiles[i] # "PENDING"})

\* C11: once the monitor samples tiles, if the job is FAILED or CANCELED on the
\* service while fewer than tileCount tiles are PROCESSED or FAILED, then the monitor
\* eventually returns or raises, unless the tiles change again.
C11_TerminalJobEndsWait ==
    \A tiles \in TileStates :
        [](( /\ Sampling
             /\ srv_status \in {"FAILED", "CANCELED"}
             /\ srv_tiles = tiles
             /\ FinishedIn(tiles) < tileCount )
           => <>(MonitorEnded \/ srv_tiles # tiles))

\* the status the monitor left its pre-processing wait with is no failure status
RunningStatus ==
    /\ status # Unbound
    /\ status.v \notin PreProcessing \cup {"FAILED", "CANCELED"}

\* C12: a run of monitor_batch_job that has seen a status outside the pre-processing
\* set that is neither FAILED nor CANCELED, and none of whose remote calls failed,
\* does not raise: when it ends, it returns the last tile sample grouped by status.
\* This for every tileCount >= 0, a job of no tiles included.
C12_ReturnsLastSample ==
    (RunningStatus /\ MonitorEnded /\ call.outcome # "DownloadFailedException") =>
        /\ pc = "done"
        /\ call.op = "monitor_batch_job"
        /\ call.outcome = "return"
        /\ call.value = tiles_per_status

\* C13: when monitor_batch_job returns, the 'failed for N tiles' report it made
\* states the number of FAILED tiles of the final sample, and it made no such
\* report when no tile of that sample is FAILED.
C13_ReportsFailedTiles ==
    pc = "done" =>
        LET failed == NumberOf(tiles_per_status, "FAILED")
        IN  IF failed > 0 THEN logged = PyInt(failed) ELSE logged = None

\* the sleeps of a run whose samples the model has counted exactly: as many as
\* samples while more samples are to come, one fewer once the last is taken
SampleSleepCount ==
    tile_requests < MaxSamples =>
        /\ (pc = "sleep_sample" \/ (pc = "while_finished" /\ MoreToDo)) =>
              sample_sleeps = tile_requests
        /\ (pc = "done" \/ (pc = "while_finished" /\ ~MoreToDo /\ tile_requests > 0)) =>
              sample_sleeps = tile_requests - 1

\* a step of the monitor, from a tile sample to its sleep or to the end of the loop
SampleStep ==
    /\ pc = "while_finished"
    /\ MoreToDo
    /\ monitor_vars' # monitor_vars
    /\ pc' # "raised"

\* what a step of the sampling phase does to the sleeps and the tile requests
SamplingStep ==
    /\ SampleStep =>
          IF finished_count'.v < total_tile_count.v
          THEN /\ pc' = "sleep_sample"
               /\ sample_sleeps < MaxSamples => sample_sleeps' = sample_sleeps + 1
          ELSE /\ pc' = "while_finished"
               /\ sample_sleeps' = sample_sleeps
    /\ (pc = "sleep_sample" /\ monitor_vars' # monitor_vars) =>
          /\ pc' = "while_finished"
          /\ tile_requests' = tile_requests
          /\ sample_sleeps' = sample_sleeps
    /\ (pc = "done" \/ (pc = "while_finished" /\ ~MoreToDo)) =>
          /\ tile_requests' = tile_requests
          /\ sample_sleeps' = sample_sleeps

\* C14: in the sampling phase a sample that leaves finished below tileCount is
\* followed by one sleep and then the next test of the loop, the sample at which
\* finished reaches tileCount is followed by no sleep and no further tile request,
\* and so a run of k samples sleeps k-1 times.
C14_OneSleepBetweenSamples ==
    /\ []SampleSleepCount
    /\ [][SamplingStep]_vars

\* a run that returned after two samples and the one sleep between them
C14_Witness ==
    /\ pc = "done"
    /\ tile_requests = 2
    /\ sample_sleeps = 1

\* what a tile sample does to the counters of the run
CountersStep ==
    (pc = "while_finished" /\ finished_count' # Unbound) =>
        /\ total_tile_count' = total_tile_count
        /\ finished_count'.v >= finished_count.v
        /\ success_count'.v >= success_count.v

\* C15: from one tile sample of a run to the next the total tile count is the
\* same, and neither the finished counter (processed + failed) nor the succeeded
\* counter (processed) decreases, whatever the service reports, a finished tile
\* that is pending again (a tile reprocessed) included.
C15_CountersNeverDecrease == [][CountersStep]_vars

\* a remote call of the run has failed
RemoteCallFailed == call.outcome = "DownloadFailedException"

\* the failed call's error is what the caller of the monitor gets
FailurePropagated ==
    RemoteCallFailed =>
        /\ pc = "raised"
        /\ call.op = "monitor_batch_job"
        /\ call.value = None
        /\ call.request.url \in {_get_process_url(request_id),
                                 _get_tiles_url(request_id, None)}

\* the failing call is not followed by a sleep, and nothing of the run follows it
NothingAfterFailure ==
    /\ RemoteCallFailed' => sample_sleeps' = sample_sleeps
    /\ RemoteCallFailed => UNCHANGED <<handle_vars, call, monitor_vars>>

\* C16: when a remote call of monitor_batch_job fails (the status refresh or the
\* tile listing), the error goes to the caller at once: the run makes no further
\* remote call and no further sleep, and it returns no mapping.
C16_FailurePropagates ==
    /\ []FailurePropagated
    /\ [][NothingAfterFailure]_vars

\* a tile listing that failed after a sample and its sleep
C16_Witness ==
    /\ RemoteCallFailed
    /\ pc = "raised"
    /\ call.request.url = _get_tiles_url(request_id, None)
    /\ tile_requests = 2
    /\ sample_sleeps = 1

----------------------------------------------------------------------------
\* Properties of the collection operations and the payload helpers

CollectionUrl(collection_id) ==
    <<"sh_base_url", "api", "v1", "batch", "collections", collection_id.v>>

\* the identifier a collection argument carries, if it is of a form that has one
CarriedId(arg) ==
    CASE arg.t \in {"BatchCollection", "DataCollection"} -> arg.v["collection_id"]
      [] arg.t = "dict" -> Get(arg, "id")
      [] arg.t = "str"  -> arg
      [] OTHER          -> None

CollectionVerb == [update_collection |-> "PUT", delete_collection |-> "DELETE"]

Requested(verb, url) ==
    /\ call.outcome = "return"
    /\ call.request.verb = verb
    /\ call.request.url = url

Rejected ==
    /\ call.outcome = "ValueError"
    /\ call.request = NoRequest

PayloadOps == {"output", "tiling_grid", "create", "update"}

\* the mapping a payload-building call has built
PayloadOf(c) == IF c.op \in {"output", "tiling_grid"} THEN c.value.v
                ELSE c.request.body.v

\* the keys of the payload a parameter is written to
ParamKeys(op, param) ==
    IF op = "tiling_grid" /\ param = "buffer" THEN {"bufferX", "bufferY"}
    ELSE {param}

\* C9: in the mapping built by output, tiling_grid, create or update, a parameter
\* left at None (named or an extra keyword argument) is no key of the mapping, and
\* a parameter passed as False or 0 is a key of it, with that value.
C9_UnsetOmitted ==
    (call.op \in PayloadOps /\ call.outcome = "return") =>
        \A param \in DOMAIN call.args.v :
            /\ call.args.v[param] = None =>
                  ParamKeys(call.op, param) \cap DOMAIN PayloadOf(call) = {}
            /\ call.args.v[param] \in {PyBool(FALSE), PyInt(0)} =>
                  /\ param \in DOMAIN PayloadOf(call)
                  /\ PayloadOf(call)[param] = call.args.v[param]

====
